---- MODULE Spec2Model ----
(***************************************************************************)
(* Model of the todo query logic of the ToDo-list frontend: isToday,       *)
(* filterTodos and countTodosDueToday (utils/todoFilters), together with   *)
(* the ambient wall clock that isToday reads through `new Date()`.         *)
(*                                                                         *)
(* Time values are the time value of a JavaScript Date, abstracted from    *)
(* milliseconds to whole hours since 1970-01-01T00:00Z.  An Invalid Date   *)
(* has the time value NaN.  The local calendar fields (getDate, getMonth,  *)
(* getFullYear) are computed from the time value and the local offset by   *)
(* the proleptic Gregorian calendar, as the Date methods do.               *)
(***************************************************************************)
EXTENDS Integers, Sequences, FiniteSets, TLC

VARIABLES now, tz, ticks, pc, op, filter, todos, todos0, i, acc, ret, cnt,
          days, prevOp, prevFilter, prevRet, prevCnt, prevDays

\* The DashBoard component: its tab state, the tasks it builds at each
\* render, the items it hands to TodoItem components, the isDone state of
\* each TodoItem component, the clicks each has received, the indexes
\* switchTabs has reported with console.error and the index of the latest
\* call of switchTabs (none before the first call).
VARIABLES activeTabIndex, todoItems, rendered, isDone, clicks, errLogged,
          lastSwitch

uiVars == <<activeTabIndex, todoItems, rendered, isDone, clicks, errLogged,
            lastSwitch>>

\* The backend of the design document: the TodoItems table, the ids
\* Guid.NewGuid has produced, the ids removed by a DeleteTodo, and the last
\* request with the status and body of its response.
VARIABLES store, issued, deleted, req, status, body

apiVars == <<store, issued, deleted, req, status, body>>

vars == <<now, tz, ticks, pc, op, filter, todos, todos0, i, acc, ret, cnt,
          days, prevOp, prevFilter, prevRet, prevCnt, prevDays, uiVars,
          apiVars>>

(***************************************************************************)
(* Bounds of the model.                                                    *)
(***************************************************************************)
MaxLen == 2
MaxTicks == 3
TickHours == 8
MaxClicks == 2
NumGuids == 2

(***************************************************************************)
(* JavaScript Date: time values and local calendar fields.                 *)
(***************************************************************************)
NaN == -1

HoursPerDay == 24

\* Day number (days since 1970-01-01) of a civil date; month is 1..12.
DaysFromCivil(y, m, d) ==
  LET yy  == IF m <= 2 THEN y - 1 ELSE y
      era == yy \div 400
      yoe == yy - era * 400
      mp  == IF m > 2 THEN m - 3 ELSE m + 9
      doy == (153 * mp + 2) \div 5 + d - 1
      doe == yoe * 365 + yoe \div 4 - yoe \div 100 + doy
  IN  era * 146097 + doe - 719468

\* new Date(y, m, d, h) read in UTC: the time value of a civil instant.
MakeTime(y, m, d, h) == DaysFromCivil(y, m, d) * HoursPerDay + h

\* The civil date <<year, month (1..12), day of month>> of a day number.
CivilFromDays(z0) ==
  LET z   == z0 + 719468
      era == z \div 146097
      doe == z - era * 146097
      yoe == (doe - doe \div 1460 + doe \div 36524 - doe \div 146096) \div 365
      doy == doe - (365 * yoe + yoe \div 4 - yoe \div 100)
      mp  == (5 * doy + 2) \div 153
      d   == doy - (153 * mp + 2) \div 5 + 1
      m   == IF mp < 10 THEN mp + 3 ELSE mp - 9
      y   == yoe + era * 400 + (IF m <= 2 THEN 1 ELSE 0)
  IN  <<y, m, d>>

\* LocalTime(t): the time value shifted to the local timezone.
LocalTime(t) == t + tz

\* Day(LocalTime(t)): the local day number of a valid time value.
LocalDay(t) == LocalTime(t) \div HoursPerDay

\* Date.prototype.getDate: local day of the month, NaN for an Invalid Date.
getDate(date) ==
  IF date = NaN THEN NaN ELSE CivilFromDays(LocalDay(date))[3]

\* Date.prototype.getMonth: local month, 0-based, NaN for an Invalid Date.
getMonth(date) ==
  IF date = NaN THEN NaN ELSE CivilFromDays(LocalDay(date))[2] - 1

\* Date.prototype.getFullYear: local year, NaN for an Invalid Date.
getFullYear(date) ==
  IF date = NaN THEN NaN ELSE CivilFromDays(LocalDay(date))[1]

\* The === operator on numbers: NaN is equal to nothing, itself included.
StrictEq(a, b) == a # NaN /\ b # NaN /\ a = b

\* Mutant of NewDate: an Invalid Date falls back to the current time.
NewDate_fallbackNow(value) == IF value = NaN THEN now ELSE value

\* new Date(value) for a Date argument: a copy with the same time value;
\* an Invalid Date stays invalid.
NewDate(value) == IF value = NaN THEN NaN ELSE value

\* Mutant of isToday: the year is not compared.
isToday_noYear(date) ==
  LET today == now
  IN  /\ StrictEq(getDate(date), getDate(today))
      /\ StrictEq(getMonth(date), getMonth(today))

\* Mutant of isToday: the time of day is compared too (not yet passed).
isToday_notPassed(date) ==
  LET today == now
  IN  /\ StrictEq(getDate(date), getDate(today))
      /\ StrictEq(getMonth(date), getMonth(today))
      /\ StrictEq(getFullYear(date), getFullYear(today))
      /\ date >= today

\* Mutant of isToday: less than a day apart instead of the same calendar day.
isToday_within24h(date) ==
  LET today == now
  IN  /\ date # NaN
      /\ date - today < HoursPerDay
      /\ today - date < HoursPerDay

\* isToday(date): `today` is the clock read by new Date() at this call.
isToday(date) ==
  LET today == now
  IN  /\ StrictEq(getDate(date), getDate(today))
      /\ StrictEq(getMonth(date), getMonth(today))
      /\ StrictEq(getFullYear(date), getFullYear(today))

(***************************************************************************)
(* Inputs: tasks, task sequences and filter values.                        *)
(***************************************************************************)
TodoTag == {"Work", "Personal", "Home", "Health"}

Priority == {"high", "medium", "low"}

\* The clock at which the model starts: 2026-11-03 12:00Z.
ClockStart == MakeTime(2026, 11, 3, 12)

TzOffsets == {-8, 0}

\* The due dates of the modelled tasks: the same local day at another
\* time of day, an instant whose local day depends on the timezone, the
\* same day and month of another year, the same day of another month, and
\* an Invalid Date.
DueDates ==
  { MakeTime(2026, 11, 3, 17), MakeTime(2026, 11, 4, 3),
    MakeTime(2025, 11, 3, 17), MakeTime(2026, 12, 3, 17), NaN }

\* The remaining fields of a task, which the query logic never reads.
TodoOf(d, done) ==
  [ name        |-> IF done THEN "Walk the dog" ELSE "Buy groceries",
    dueDate     |-> d,
    done        |-> done,
    description |-> IF d = NaN THEN "" ELSE "Annual checkup at 10:00 AM.",
    tag         |-> IF d = NaN THEN "Home" ELSE IF done THEN "Health" ELSE "Work",
    priority    |-> IF done THEN "low" ELSE "high" ]

\* The due dates of the modelled tasks that are done.
DoneDueDates == { MakeTime(2026, 11, 3, 17), NaN }

TodoItems ==
  { TodoOf(d, FALSE) : d \in DueDates } \cup { TodoOf(d, TRUE) : d \in DoneDueDates }

\* The three-task scenario on 2026-11-03: an open task due that day, a done
\* task due that day an hour later, and an open task due the day after
\* (09:00 and 10:00 local time at the offset -8).
ScenarioSeqs ==
  { << TodoOf(MakeTime(2026, 11, 3, 17), FALSE),
       TodoOf(MakeTime(2026, 11, 3, 18), TRUE),
       TodoOf(MakeTime(2026, 11, 4, 17), FALSE) >> }

TodoSeqs == UNION { [1..n -> TodoItems] : n \in 0..MaxLen } \cup ScenarioSeqs

\* FilterOption, and values outside it that reach the default branch.
FilterOption == {"all", "dueToday", "completed"}

OtherFilters == {"overdue"}

(***************************************************************************)
(* Array.prototype.filter with the two callbacks of todoFilters.           *)
(***************************************************************************)
\* Mutant of ArrayAfterFilter: the callback marks the visited tasks done.
ArrayAfterFilter_marksDone(arr) ==
  [ k \in 1..Len(arr) |-> [arr[k] EXCEPT !.done = TRUE] ]

\* Array.prototype.filter leaves the array it is called on untouched.
ArrayAfterFilter(arr) == arr

\* Mutant of IsDone: the flag is negated.
IsDone_negated(todo) == ~todo.done

\* (todo) => todo.done
IsDone(todo) == todo.done

\* Mutant of FilterDone: the kept elements come out in reverse order.
FilterDone_reversed(arr) ==
  LET kept == SelectSeq(arr, LAMBDA t : t.done)
  IN  [ k \in 1..Len(kept) |-> kept[Len(kept) + 1 - k] ]

\* todos.filter((todo) => todo.done): a new array, kept elements in order.
RECURSIVE FilterDone(_)
FilterDone(arr) ==
  IF arr = <<>> THEN <<>>
  ELSE IF IsDone(Head(arr)) THEN <<Head(arr)>> \o FilterDone(Tail(arr))
       ELSE FilterDone(Tail(arr))

\* Mutant of FilterCallback: the done flag is not tested.
FilterCallback_noDone(todo) == isToday(NewDate(todo.dueDate))

\* filterTodos, case "dueToday":
\* (todo) => !todo.done && isToday(new Date(todo.dueDate))
FilterCallback(todo) == ~todo.done /\ isToday(NewDate(todo.dueDate))

\* Mutant of CountCallback: the done flag is not tested.
CountCallback_noDone(todo) == isToday(NewDate(todo.dueDate))

\* countTodosDueToday:
\* (todo) => !todo.done && isToday(new Date(todo.dueDate))
CountCallback(todo) == ~todo.done /\ isToday(NewDate(todo.dueDate))

\* && short-circuits: the clock is read only for a task that is not done.
ReadsClock(todo) == ~todo.done

\* Mutant of Length: off by one.
Length_offByOne(arr) == Len(arr) + 1

\* .length of the array built by filter
Length(arr) == Len(arr)

\* Mutant of ResultAll: only the open tasks are returned.
ResultAll_openOnly(arr) == SelectSeq(arr, LAMBDA t : ~t.done)

\* case "all": return todos
ResultAll(arr) == arr

\* Mutant of ResultDefault: an unknown filter selects nothing.
ResultDefault_empty(arr) == <<>>

\* default: return todos
ResultDefault(arr) == arr

(***************************************************************************)
(* The DashBoard page and its TodoItem components.                         *)
(***************************************************************************)
\* const taskTabs = ["completed", "Due Today", "Completed"]
taskTabs == <<"completed", "Due Today", "Completed">>

\* date.setHours(h, ...) on the local day of t (minutes and below dropped).
SetHours(t, h) == LocalDay(t) * HoursPerDay + h - tz

\* date.setDate(date.getDate() + n): the same local time n days later.
AddDays(t, n) == t + n * HoursPerDay

\* Mutant of DashBoardItems: a task carries a priority outside the enum.
DashBoardItems_badPriority(t) ==
  << [ name |-> "Finish project report", dueDate |-> SetHours(t, 23),
       done |-> FALSE, description |-> "", tag |-> "Work",
       priority |-> "urgent" ] >>

\* const todoItems = [...]: built from new Date() each time DashBoard renders.
DashBoardItems(t) ==
  << [ name |-> "Finish project report", dueDate |-> SetHours(t, 23),
       done |-> FALSE,
       description |-> "Compile the final report for the quarterly project and send to manager.",
       tag |-> "Work", priority |-> "high" ],
     [ name |-> "Grocery shopping", dueDate |-> AddDays(t, 1),
       done |-> FALSE,
       description |-> "Buy ingredients for dinner and snacks for the week.",
       tag |-> "Home", priority |-> "medium" ],
     [ name |-> "Doctor's appointment", dueDate |-> AddDays(t, 2),
       done |-> FALSE,
       description |-> "Annual checkup at 10:00 AM.",
       tag |-> "Health", priority |-> "high" ],
     [ name |-> "Call mom", dueDate |-> AddDays(t, 1),
       done |-> FALSE,
       description |-> "Catch up with mom in the evening.",
       tag |-> "Personal", priority |-> "low" ],
     [ name |-> "Team meeting", dueDate |-> SetHours(t, 16),
       done |-> FALSE,
       description |-> "Attend the sprint planning meeting on Zoom.",
       tag |-> "Work", priority |-> "medium" ] >>

\* todoItems.map((item, index) => <TodoItem item={item} />)
RenderList(items) == [ k \in 1..Len(items) |-> items[k] ]

\* The indexes switchTabs is called with: the three buttons, and values no
\* button passes.
SwitchIndexes == -1..3

(***************************************************************************)
(* The backend of the design document: TodosController over TodoService    *)
(* over Repository<TodoItem>.  [ApiController] answers a request whose DTO  *)
(* fails validation before the action runs, so the actions see titles of   *)
(* 1 to 200 characters only.                                               *)
(***************************************************************************)
\* The Guid values of the model.
Guids == 1..NumGuids

Titles == {"Buy groceries", "Learn C#"}

\* HTTP status codes of the action results.
Ok == 200
Created == 201
NoContent == 204
BadRequest == 400
NotFound == 404

\* UpdateTodoItemDto
UpdateDtos == [Id : Guids, Title : Titles, IsCompleted : BOOLEAN]

\* No request has been made yet.
NoRequest == [op |-> "none", id |-> 0, dtoId |-> 0, title |-> ""]

\* CreateMap<TodoItem, TodoItemDto>()
ToDto(todo) ==
  [ Id |-> todo.Id, Title |-> todo.Title, IsCompleted |-> todo.IsCompleted,
    CreatedAt |-> todo.CreatedAt ]

\* Repository.GetByIdAsync: _dbSet.FindAsync(id), null as the empty set.
GetByIdAsync(id) == IF id \in DOMAIN store THEN {store[id]} ELSE {}

\* TodoService.GetTodoByIdAsync: the DTO of the entity, null for null.
GetTodoByIdAsync(id) == { ToDto(todo) : todo \in GetByIdAsync(id) }

\* TodoService.CreateTodoAsync: the entity mapped from the DTO, with a new
\* id and the creation time.
NewTodo(title, id) ==
  [ Id |-> id, Title |-> title, IsCompleted |-> FALSE, CreatedAt |-> now ]

\* Mutant of AddAsync: the table is replaced by the added entity.
AddAsync_overwrites(table, todo) == [ g \in {todo.Id} |-> todo ]

\* Repository.AddAsync
AddAsync(table, todo) ==
  [ g \in DOMAIN table \cup {todo.Id} |->
      IF g = todo.Id THEN todo ELSE table[g] ]

\* _mapper.Map(updateDto, existingTodo): CreateMap<UpdateTodoItemDto, TodoItem>()
MapUpdate(updateDto, existingTodo) ==
  [ existingTodo EXCEPT !.Id = updateDto.Id, !.Title = updateDto.Title,
                        !.IsCompleted = updateDto.IsCompleted ]

\* Repository.UpdateAsync
UpdateAsync(table, id, todo) == [ table EXCEPT ![id] = todo ]

\* Mutant of DeleteAsync: the removal is never saved.
DeleteAsync_notSaved(table, id) == table

\* Repository.DeleteAsync
DeleteAsync(table, id) == [ g \in DOMAIN table \ {id} |-> table[g] ]

\* Mutant of IdMismatch: the ids are not compared.
IdMismatch_never(id, updateDto) == FALSE

\* TodosController.UpdateTodo: if (id != updateDto.Id)
IdMismatch(id, updateDto) == id # updateDto.Id

\* Mutant of StatusOf: the result of the service is ignored.
StatusOf_ignored(success) == NoContent

\* TodosController.UpdateTodo / DeleteTodo: NotFound() unless success
StatusOf(success) == IF success THEN NoContent ELSE NotFound

(***************************************************************************)
(* State machine.                                                          *)
(***************************************************************************)
Init ==
  /\ now = ClockStart
  /\ tz \in TzOffsets
  /\ ticks = 0
  /\ pc = "idle"
  /\ op = "none"
  /\ filter = "all"
  /\ todos = <<>>
  /\ todos0 = <<>>
  /\ i = 1
  /\ acc = <<>>
  /\ ret = <<>>
  /\ cnt = 0
  /\ days = {}
  /\ prevOp = "none"
  /\ prevFilter = "all"
  /\ prevRet = <<>>
  /\ prevCnt = 0
  /\ prevDays = {}
  /\ activeTabIndex = 0
  /\ todoItems = DashBoardItems(ClockStart)
  /\ rendered = RenderList(DashBoardItems(ClockStart))
  /\ isDone = [ k \in 1..Len(DashBoardItems(ClockStart)) |-> FALSE ]
  /\ clicks = [ k \in 1..Len(DashBoardItems(ClockStart)) |-> 0 ]
  /\ errLogged = {}
  /\ lastSwitch = {}
  /\ store = [ g \in {} |-> NewTodo("", g) ]
  /\ issued = {}
  /\ deleted = {}
  /\ req = NoRequest
  /\ status = 0
  /\ body = {}

\* The wall clock advances on its own, also while a call is iterating.
Tick ==
  /\ ticks < MaxTicks
  /\ now' = now + TickHours
  /\ ticks' = ticks + 1
  /\ UNCHANGED <<tz, pc, op, filter, todos, todos0, i, acc, ret, cnt, days,
                 prevOp, prevFilter, prevRet, prevCnt, prevDays>>
  /\ UNCHANGED <<uiVars, apiVars>>

\* The first call: the caller passes an array of tasks.
FreshInput(T) ==
  /\ pc = "idle"
  /\ todos' = T
  /\ todos0' = T
  /\ prevOp' = "none"
  /\ prevFilter' = "all"
  /\ prevRet' = <<>>
  /\ prevCnt' = 0
  /\ prevDays' = {}

\* A caller passes the array of the call that has just returned; the
\* outcome of that call is remembered.
SameInput ==
  /\ pc = "returned"
  /\ todos' = todos
  /\ todos0' = todos
  /\ prevOp' = op
  /\ prevFilter' = filter
  /\ prevRet' = ret
  /\ prevCnt' = cnt
  /\ prevDays' = days

Input == (\E T \in TodoSeqs : FreshInput(T)) \/ SameInput

\* filterTodos(todos, "all")
FilterAll ==
  /\ Input
  /\ op' = "filterTodos"
  /\ filter' = "all"
  /\ ret' = ResultAll(todos')
  /\ pc' = "returned"
  /\ i' = 1 /\ acc' = <<>> /\ cnt' = 0 /\ days' = {}
  /\ UNCHANGED <<now, tz, ticks>>
  /\ UNCHANGED <<uiVars, apiVars>>

\* filterTodos(todos, "completed")
FilterCompleted ==
  /\ Input
  /\ op' = "filterTodos"
  /\ filter' = "completed"
  /\ ret' = FilterDone(todos')
  /\ pc' = "returned"
  /\ i' = 1 /\ acc' = <<>> /\ cnt' = 0 /\ days' = {}
  /\ UNCHANGED <<now, tz, ticks>>
  /\ UNCHANGED <<uiVars, apiVars>>

\* filterTodos(todos, f) for f outside FilterOption
FilterDefault ==
  /\ Input
  /\ \E f \in OtherFilters : filter' = f
  /\ op' = "filterTodos"
  /\ ret' = ResultDefault(todos')
  /\ pc' = "returned"
  /\ i' = 1 /\ acc' = <<>> /\ cnt' = 0 /\ days' = {}
  /\ UNCHANGED <<now, tz, ticks>>
  /\ UNCHANGED <<uiVars, apiVars>>

\* filterTodos(todos, "dueToday"): todos.filter(...) starts iterating.
FilterDueToday ==
  /\ Input
  /\ op' = "filterTodos"
  /\ filter' = "dueToday"
  /\ pc' = "running"
  /\ i' = 1 /\ acc' = <<>> /\ ret' = <<>> /\ cnt' = 0 /\ days' = {}
  /\ UNCHANGED <<now, tz, ticks>>
  /\ UNCHANGED <<uiVars, apiVars>>

\* countTodosDueToday(todos): todos.filter(...) starts iterating.
CountTodosDueToday ==
  /\ Input
  /\ op' = "countTodosDueToday"
  /\ filter' = "dueToday"
  /\ pc' = "running"
  /\ i' = 1 /\ acc' = <<>> /\ ret' = <<>> /\ cnt' = 0 /\ days' = {}
  /\ UNCHANGED <<now, tz, ticks>>
  /\ UNCHANGED <<uiVars, apiVars>>

\* One callback invocation of todos.filter on the element at index i.
CallbackStep ==
  /\ pc = "running"
  /\ i <= Len(todos)
  /\ LET keep == IF op = "filterTodos" THEN FilterCallback(todos[i])
                                         ELSE CountCallback(todos[i])
     IN  acc' = IF keep THEN Append(acc, todos[i]) ELSE acc
  /\ days' = IF ReadsClock(todos[i]) THEN days \cup {LocalDay(now)} ELSE days
  /\ i' = i + 1
  /\ todos' = ArrayAfterFilter(todos)
  /\ UNCHANGED <<now, tz, ticks, pc, op, filter, todos0, ret, cnt,
                 prevOp, prevFilter, prevRet, prevCnt, prevDays>>
  /\ UNCHANGED <<uiVars, apiVars>>

\* filterTodos returns the array built by filter.
FilterReturn ==
  /\ pc = "running"
  /\ op = "filterTodos"
  /\ i > Len(todos)
  /\ ret' = acc
  /\ pc' = "returned"
  /\ UNCHANGED <<now, tz, ticks, op, filter, todos, todos0, i, acc, cnt, days,
                 prevOp, prevFilter, prevRet, prevCnt, prevDays>>
  /\ UNCHANGED <<uiVars, apiVars>>

\* countTodosDueToday returns the .length of the array built by filter.
CountReturn ==
  /\ pc = "running"
  /\ op = "countTodosDueToday"
  /\ i > Len(todos)
  /\ cnt' = Length(acc)
  /\ pc' = "returned"
  /\ UNCHANGED <<now, tz, ticks, op, filter, todos, todos0, i, acc, ret, days,
                 prevOp, prevFilter, prevRet, prevCnt, prevDays>>
  /\ UNCHANGED <<uiVars, apiVars>>

Next ==
  \/ Tick
  \/ FilterAll
  \/ FilterCompleted
  \/ FilterDefault
  \/ FilterDueToday
  \/ CountTodosDueToday
  \/ CallbackStep
  \/ FilterReturn
  \/ CountReturn

Spec == Init /\ [][Next]_vars

queryVars == <<pc, op, filter, todos, todos0, i, acc, ret, cnt, days,
               prevOp, prevFilter, prevRet, prevCnt, prevDays>>

\* Mutant of SwitchTabs: the index is stored without the [0, 1, 2] test.
SwitchTabs_noCheck(index) ==
  /\ lastSwitch' = {index}
  /\ activeTabIndex' = index
  /\ todoItems' = DashBoardItems(now)
  /\ rendered' = RenderList(DashBoardItems(now))
  /\ UNCHANGED <<errLogged, isDone, clicks>>
  /\ UNCHANGED <<now, tz, ticks, queryVars, apiVars>>

\* switchTabs(index).  A new activeTabIndex makes DashBoard render again,
\* which builds todoItems anew and maps them to TodoItem components; the
\* mounted TodoItem components keep their state.  Setting the index the
\* state already holds renders nothing.
SwitchTabs(index) ==
  /\ lastSwitch' = {index}
  /\ IF index \in {0, 1, 2}
       THEN /\ activeTabIndex' = index
            /\ IF index # activeTabIndex
                 THEN /\ todoItems' = DashBoardItems(now)
                      /\ rendered' = RenderList(DashBoardItems(now))
                 ELSE UNCHANGED <<todoItems, rendered>>
            /\ UNCHANGED errLogged
       ELSE /\ errLogged' = errLogged \cup {index}
            /\ UNCHANGED <<activeTabIndex, todoItems, rendered>>
  /\ UNCHANGED <<isDone, clicks>>
  /\ UNCHANGED <<now, tz, ticks, queryVars, apiVars>>

\* onClick of the TodoItem at position k: setIsDone((prev) => !prev).
ClickItem(k) ==
  /\ clicks[k] < MaxClicks
  /\ isDone' = [isDone EXCEPT ![k] = ~isDone[k]]
  /\ clicks' = [clicks EXCEPT ![k] = clicks[k] + 1]
  /\ UNCHANGED <<activeTabIndex, todoItems, rendered, errLogged, lastSwitch>>
  /\ UNCHANGED <<now, tz, ticks, queryVars, apiVars>>

NextUI ==
  \/ Tick
  \/ \E index \in SwitchIndexes : SwitchTabs(index)
  \/ \E k \in 1..Len(rendered) : ClickItem(k)

SpecUI == Init /\ [][NextUI]_vars

\* The page and the query functions side by side.  No code of the page calls
\* the query functions and they share no state but the clock, so a run
\* exercises one of the two: the functions are called while the page is as
\* mounted, the page is used while no call has been made.
PageAsMounted ==
  /\ activeTabIndex = 0
  /\ todoItems = DashBoardItems(ClockStart)
  /\ \A k \in DOMAIN clicks : clicks[k] = 0
  /\ errLogged = {}
  /\ lastSwitch = {}

NoCallMade == pc = "idle"

CallsOnly == PageAsMounted /\ Next

PageOnly == NoCallMade /\ NextUI

NextApp == CallsOnly \/ PageOnly

SpecApp == Init /\ [][NextApp]_vars

\* GET api/Todos
GetTodos ==
  /\ req' = [op |-> "GetTodos", id |-> 0, dtoId |-> 0, title |-> ""]
  /\ status' = Ok
  /\ body' = { ToDto(store[g]) : g \in DOMAIN store }
  /\ UNCHANGED <<store, issued, deleted>>
  /\ UNCHANGED <<now, tz, ticks, queryVars, uiVars>>

\* GET api/Todos/{id}
GetTodo(id) ==
  /\ req' = [op |-> "GetTodo", id |-> id, dtoId |-> 0, title |-> ""]
  /\ LET todo == GetTodoByIdAsync(id)
     IN  IF todo = {}
           THEN status' = NotFound /\ body' = {}
           ELSE status' = Ok /\ body' = todo
  /\ UNCHANGED <<store, issued, deleted>>
  /\ UNCHANGED <<now, tz, ticks, queryVars, uiVars>>

\* POST api/Todos: Guid.NewGuid() is a value never produced before.
CreateTodo(title) ==
  \E id \in Guids \ issued :
    LET todo == NewTodo(title, id)
    IN  /\ req' = [op |-> "CreateTodo", id |-> 0, dtoId |-> 0, title |-> title]
        /\ issued' = issued \cup {id}
        /\ store' = AddAsync(store, todo)
        /\ status' = Created
        /\ body' = {ToDto(todo)}
        /\ UNCHANGED deleted
        /\ UNCHANGED <<now, tz, ticks, queryVars, uiVars>>

\* PUT api/Todos/{id}
UpdateTodo(id, updateDto) ==
  /\ req' = [op |-> "UpdateTodo", id |-> id, dtoId |-> updateDto.Id,
             title |-> ""]
  /\ body' = {}
  /\ IF IdMismatch(id, updateDto)
       THEN status' = BadRequest /\ UNCHANGED store
       ELSE LET existingTodo == GetByIdAsync(id)
                success == existingTodo # {}
            IN  /\ status' = StatusOf(success)
                /\ IF success
                     THEN store' = UpdateAsync(store, id,
                                               MapUpdate(updateDto, store[id]))
                     ELSE UNCHANGED store
  /\ UNCHANGED <<issued, deleted>>
  /\ UNCHANGED <<now, tz, ticks, queryVars, uiVars>>

\* DELETE api/Todos/{id}
DeleteTodo(id) ==
  /\ req' = [op |-> "DeleteTodo", id |-> id, dtoId |-> 0, title |-> ""]
  /\ body' = {}
  /\ LET existingTodo == GetByIdAsync(id)
         success == existingTodo # {}
     IN  /\ status' = StatusOf(success)
         /\ IF success
              THEN store' = DeleteAsync(store, id) /\ deleted' = deleted \cup {id}
              ELSE UNCHANGED <<store, deleted>>
  /\ UNCHANGED issued
  /\ UNCHANGED <<now, tz, ticks, queryVars, uiVars>>

NextApi ==
  \/ Tick
  \/ GetTodos
  \/ \E id \in Guids : GetTodo(id)
  \/ \E title \in Titles : CreateTodo(title)
  \/ \E id \in Guids, updateDto \in UpdateDtos : UpdateTodo(id, updateDto)
  \/ \E id \in Guids : DeleteTodo(id)

SpecApi == Init /\ [][NextApi]_vars

(***************************************************************************)
(* Properties.                                                             *)
(***************************************************************************)
\* The elements of T at the indices in S, by increasing index.
AtIndices(T, S) ==
  [ k \in 1..Cardinality(S) |->
      T[CHOOSE j \in S : Cardinality({ m \in S : m < j }) = k - 1] ]

\* The indices of the tasks of T that are not done and whose due date is a
\* valid instant of the local calendar day with day number D.
DueOn(T, D) ==
  { k \in 1..Len(T) :
      /\ T[k].done = FALSE
      /\ T[k].dueDate # NaN
      /\ (T[k].dueDate + tz) \div HoursPerDay = D }

\* The indices of the tasks of T that are done.
DoneIn(T) == { k \in 1..Len(T) : T[k].done = TRUE }

\* Every clock read of the current call fell on the local day D.
DayFixedAt(D) == days \subseteq {D}

Returned(o, f) == pc = "returned" /\ op = o /\ filter = f

\* C1: when the current local day stays D for a whole call of
\* filterTodos(T, dueToday), the result is exactly the tasks of T that are
\* not done and due on day D, in their order in T.
C1_DueTodayExact ==
  Returned("filterTodos", "dueToday") =>
    \A D \in days \cup {(now + tz) \div HoursPerDay} :
      DayFixedAt(D) => ret = AtIndices(todos0, DueOn(todos0, D))

\* A dueToday call under one fixed day that keeps the first task and drops
\* the second.
C1_Witness ==
  /\ Returned("filterTodos", "dueToday")
  /\ Cardinality(days) = 1
  /\ Len(todos0) = 2
  /\ ret = <<todos0[1]>>
  /\ todos0[2] # todos0[1]

\* C2: filterTodos(T, completed) is exactly the done tasks of T, in their
\* order in T.
C2_CompletedExact ==
  Returned("filterTodos", "completed") =>
    ret = AtIndices(todos0, DoneIn(todos0))

\* A completed call that keeps the second task only.
C2_Witness ==
  /\ Returned("filterTodos", "completed")
  /\ Len(todos0) = 2
  /\ ret = <<todos0[2]>>
  /\ todos0[1].done = FALSE

\* C3: filterTodos(T, all) is T itself.
C3_AllIsInput ==
  Returned("filterTodos", "all") => ret = todos0

\* An all call on two different tasks, one of them done.
C3_Witness ==
  /\ Returned("filterTodos", "all")
  /\ Len(ret) = 2
  /\ ret[1].done /\ ~ret[2].done

\* The current call and the call before it, both on the same array, read
\* the clock on at most one local day.
SameDayCalls == Cardinality(days \cup prevDays) <= 1

\* C4: on the same array and under the same current day,
\* countTodosDueToday(T) is the length of filterTodos(T, dueToday), whichever
\* of the two is called first.
C4_CountIsLength ==
  /\ ( /\ Returned("countTodosDueToday", "dueToday")
       /\ prevOp = "filterTodos" /\ prevFilter = "dueToday"
       /\ SameDayCalls ) => cnt = Len(prevRet)
  /\ ( /\ Returned("filterTodos", "dueToday")
       /\ prevOp = "countTodosDueToday"
       /\ SameDayCalls ) => prevCnt = Len(ret)

\* A count of 1 after a dueToday call on the same two tasks, one of them
\* done, on the same day.
C4_Witness ==
  /\ Returned("countTodosDueToday", "dueToday")
  /\ prevOp = "filterTodos" /\ prevFilter = "dueToday"
  /\ SameDayCalls
  /\ Len(todos0) = 2
  /\ \E k \in 1..2 : todos0[k].done
  /\ cnt = 1

\* C5: for a filter value outside {all, dueToday, completed}, filterTodos
\* returns T itself, and the call returns normally.
C5_UnknownFilterIsInput ==
  (op = "filterTodos" /\ filter \notin FilterOption) =>
    (pc = "returned" /\ ret = todos0)

\* A call with an unknown filter on a done and an open task.
C5_Witness ==
  /\ pc = "returned" /\ op = "filterTodos" /\ filter \notin FilterOption
  /\ Len(ret) = 2
  /\ ret[1].done /\ ~ret[2].done

\* The callback ran on the element at index i in this step.
CallbackRan == pc = "running" /\ i' = i + 1

\* C6: each run of the dueToday / count callback on a task that is not done
\* keeps the task exactly when its due date is a valid instant of the same
\* local calendar day as the clock; the time of day and an agreement on day
\* and month alone do not matter.
C6_DayEquality ==
  [][ (CallbackRan /\ ~todos[i].done) =>
        ( (acc' = Append(acc, todos[i])) <=>
            ( /\ todos[i].dueDate # NaN
              /\ (todos[i].dueDate + tz) \div HoursPerDay
                   = (now + tz) \div HoursPerDay ) ) ]_vars

\* A call that dropped the task due on the same day and month of another
\* year and kept the task due today at another time of day.
C6_Witness ==
  /\ pc = "returned" /\ filter = "dueToday"
  /\ Len(todos0) = 2
  /\ todos0[1].dueDate = MakeTime(2025, 11, 3, 17) /\ ~todos0[1].done
  /\ todos0[2].dueDate = MakeTime(2026, 11, 3, 17) /\ ~todos0[2].done
  /\ acc = <<todos0[2]>>
  /\ now # todos0[2].dueDate

\* C7: the array passed to filterTodos or countTodosDueToday is, during and
\* after the call, the array that was passed: same length, same order, same
\* field values.
C7_InputUntouched == todos = todos0

\* A dueToday call that has returned a part of a two-task array.
C7_Witness ==
  /\ Returned("filterTodos", "dueToday")
  /\ Len(todos0) = 2
  /\ Len(ret) = 1
  /\ prevOp = "none"

\* C8 as stated: a call repeated on the same array with the same filter
\* returns what the first call returned.
C8_RepeatIdentical ==
  (pc = "returned" /\ prevOp = op /\ prevFilter = filter) =>
    (ret = prevRet /\ cnt = prevCnt)

\* C8 amended: a call repeated on the same array with the same filter
\* returns what the first call returned, provided every clock read of the
\* two calls falls on the same local calendar day.
C8_RepeatIdenticalSameDay ==
  (pc = "returned" /\ prevOp = op /\ prevFilter = filter /\ SameDayCalls) =>
    (ret = prevRet /\ cnt = prevCnt)

\* A dueToday call repeated later on the same day with a non-empty result.
C8_Witness ==
  /\ Returned("filterTodos", "dueToday")
  /\ prevOp = op /\ prevFilter = filter
  /\ Cardinality(days \cup prevDays) = 1
  /\ ticks >= 1
  /\ Len(ret) >= 1

\* The number of elements of T whose due date is a valid instant.
ValidDates(T) == Cardinality({ k \in 1..Len(T) : T[k].dueDate # NaN })

\* C9: countTodosDueToday(T) is an integer between 0 and the length of T, and
\* 0 for the empty T.
C9_CountRange ==
  Returned("countTodosDueToday", "dueToday") =>
    /\ cnt \in 0..Len(todos0)
    /\ (todos0 = <<>> => cnt = 0)

\* A count equal to the length of a non-empty array.
C9_Witness ==
  /\ Returned("countTodosDueToday", "dueToday")
  /\ Len(todos0) >= 1
  /\ cnt = Len(todos0)

\* C10: a task with an invalid due date is never kept by the dueToday
\* callback: it is in no result of filterTodos(T, dueToday) and
\* countTodosDueToday counts at most the tasks with a valid due date,
\* whatever the clock does.
C10_InvalidNeverToday ==
  /\ \A k \in 1..Len(acc) : acc[k].dueDate # NaN
  /\ Returned("filterTodos", "dueToday") =>
       \A k \in 1..Len(ret) : ret[k].dueDate # NaN
  /\ Returned("countTodosDueToday", "dueToday") => cnt <= ValidDates(todos0)

\* Calls that have returned on an array holding an open task with an invalid
\* due date and an open task due today: only the latter is kept.
C10_Witness ==
  /\ pc = "returned" /\ filter = "dueToday"
  /\ Len(todos0) = 2
  /\ todos0[1].dueDate = NaN /\ ~todos0[1].done
  /\ acc = <<todos0[2]>>

\* T is the scenario relative to the local day D: an open task due on D, a
\* done task due on D, an open task due on D + 1.
IsScenario(T, D) ==
  /\ Len(T) = 3
  /\ \A k \in 1..3 : T[k].dueDate # NaN
  /\ ~T[1].done /\ (T[1].dueDate + tz) \div HoursPerDay = D
  /\ T[2].done  /\ (T[2].dueDate + tz) \div HoursPerDay = D
  /\ ~T[3].done /\ (T[3].dueDate + tz) \div HoursPerDay = D + 1

\* C11: on [open and due today, done and due today, open and due tomorrow]
\* filterTodos with dueToday returns the first task only and
\* countTodosDueToday returns 1.
C11_Scenario ==
  \A D \in days :
    (pc = "returned" /\ filter = "dueToday" /\ DayFixedAt(D)
       /\ IsScenario(todos0, D)) =>
      /\ op = "filterTodos" => ret = <<todos0[1]>>
      /\ op = "countTodosDueToday" => cnt = 1

\* The count has returned 1 on the scenario, after the dueToday call on it
\* returned its first task.
C11_Witness ==
  /\ Returned("countTodosDueToday", "dueToday")
  /\ \E D \in days : DayFixedAt(D) /\ IsScenario(todos0, D)
  /\ cnt = 1
  /\ prevOp = "filterTodos" /\ prevFilter = "dueToday"
  /\ prevRet = <<todos0[1]>>
  /\ todos0[1].dueDate # todos0[2].dueDate

\* The filter selections in the order of the dashboard's tabs.
TabFilters == <<"all", "dueToday", "completed">>

\* filterTodos(T, f) at the current local day, by its contract.
Filtered(T, f) ==
  CASE f = "dueToday"  -> AtIndices(T, DueOn(T, (now + tz) \div HoursPerDay))
    [] f = "completed" -> AtIndices(T, DoneIn(T))
    [] OTHER           -> T

\* C12: the tasks the dashboard renders are filterTodos(tasks, f) for the
\* filter f of the active tab.
C12_RenderedIsFiltered ==
  rendered = Filtered(todoItems, TabFilters[activeTabIndex + 1])

\* C13: after an odd number of clicks on a task, its done flag is the
\* opposite of the done flag it was created with.
C13_ClickFlipsDone ==
  \A k \in 1..Len(todoItems) :
    clicks[k] % 2 = 1 =>
      todoItems[k].done # DashBoardItems(ClockStart)[k].done

\* C14: every step keeps the number and order of the dashboard's tasks and
\* every field of every task except done.
C14_OnlyDoneChanges ==
  [][ /\ Len(todoItems') = Len(todoItems)
      /\ \A k \in 1..Len(todoItems) :
           [todoItems'[k] EXCEPT !.done = todoItems[k].done] = todoItems[k]
    ]_vars

WellTyped(T) ==
  \A k \in 1..Len(T) : T[k].tag \in TodoTag /\ T[k].priority \in Priority

\* C15: every task of the dashboard, of an array passed to the query
\* functions and of a result of filterTodos has a tag in TodoTag and a
\* priority in Priority.
C15_TagAndPriorityInEnum ==
  /\ WellTyped(todoItems) /\ WellTyped(rendered)
  /\ WellTyped(todos) /\ WellTyped(todos0)
  /\ WellTyped(acc) /\ WellTyped(ret) /\ WellTyped(prevRet)

\* The dashboard has rendered again on a later local day, with tasks of
\* three different priorities.
C15_Witness ==
  /\ activeTabIndex = 2
  /\ todoItems # DashBoardItems(ClockStart)
  /\ todoItems[1].dueDate > DashBoardItems(ClockStart)[1].dueDate
  /\ { rendered[k].priority : k \in 1..Len(rendered) } = Priority

\* The filter selection a tab label stands for.
LabelSelection(label) ==
  CASE label = "All"       -> "all"
    [] label = "Due Today" -> "dueToday"
    [] label = "Completed" -> "completed"
    [] label = "completed" -> "completed"
    [] OTHER               -> "none"

\* C16: the three tabs stand for three different filter selections, one of
\* them all: whichever tab is active, no other tab stands for its selection.
C16_TabsCoverSelections ==
  /\ Len(taskTabs) = 3
  /\ \A b \in 1..Len(taskTabs) :
       b # activeTabIndex + 1 =>
         LabelSelection(taskTabs[b]) # LabelSelection(taskTabs[activeTabIndex + 1])
  /\ \E a \in 1..Len(taskTabs) : LabelSelection(taskTabs[a]) = "all"

\* A step of the backend that handles a request (the clock does not move).
ApiStep == ticks' = ticks

\* The request handled by this step is a GetTodo, UpdateTodo or DeleteTodo.
ById == req'.op \in {"GetTodo", "UpdateTodo", "DeleteTodo"}

\* The request handled by this step is not an UpdateTodo whose body carries
\* another Id than the route.
IdsAgree == req'.op = "UpdateTodo" => req'.dtoId = req'.id

\* C17 as stated: GetTodo, UpdateTodo and DeleteTodo with an id that is not
\* stored answer NotFound and leave the table as it is.
C17_MissingIdNotFound ==
  [][ (ApiStep /\ ById /\ req'.id \notin DOMAIN store) =>
        (status' = NotFound /\ store' = store) ]_vars

\* C17 amended: GetTodo, DeleteTodo, and UpdateTodo whose body carries the
\* route id, with an id that is not stored answer NotFound; the table is
\* left as it is by every GetTodo, UpdateTodo and DeleteTodo with an id that
\* is not stored.
C17_MissingIdNotFoundIdsAgree ==
  [][ (ApiStep /\ ById /\ req'.id \notin DOMAIN store) =>
        /\ IdsAgree => status' = NotFound
        /\ store' = store ]_vars

\* An UpdateTodo with agreeing ids was answered NotFound while another item
\* is stored.
C17_Witness ==
  /\ req.op = "UpdateTodo" /\ req.dtoId = req.id
  /\ req.id \notin DOMAIN store
  /\ status = NotFound
  /\ DOMAIN store # {}

\* C18: UpdateTodo with a route id different from the Id of the body answers
\* BadRequest and leaves the table as it is.
C18_MismatchBadRequest ==
  [][ (ApiStep /\ req'.op = "UpdateTodo" /\ req'.dtoId # req'.id) =>
        (status' = BadRequest /\ store' = store) ]_vars

\* A mismatching UpdateTodo was answered BadRequest while both ids are
\* stored.
C18_Witness ==
  /\ req.op = "UpdateTodo" /\ req.dtoId # req.id
  /\ {req.id, req.dtoId} \subseteq DOMAIN store
  /\ status = BadRequest

\* C19: CreateTodo stores exactly one new item, with the requested title,
\* not completed, under an id not stored before, answers 201 Created with
\* that item and leaves the stored items as they were; a GetTodo with the
\* returned id right after it answers that item.
C19_CreateAddsOne ==
  [][ /\ (ApiStep /\ req'.op = "CreateTodo") =>
           \E id \in DOMAIN store' \ DOMAIN store :
             /\ DOMAIN store' = DOMAIN store \cup {id}
             /\ store'[id].Id = id
             /\ store'[id].Title = req'.title
             /\ store'[id].IsCompleted = FALSE
             /\ status' = Created
             /\ body' = { [ Id |-> id, Title |-> req'.title,
                            IsCompleted |-> FALSE,
                            CreatedAt |-> store'[id].CreatedAt ] }
             /\ \A g \in DOMAIN store : store'[g] = store[g]
      /\ (ApiStep /\ req.op = "CreateTodo" /\ status = Created
            /\ req'.op = "GetTodo" /\ \E b \in body : b.Id = req'.id) =>
           (status' = Ok /\ body' = body)
    ]_vars

\* A CreateTodo has added a second item to the table.
C19_Witness ==
  /\ req.op = "CreateTodo" /\ status = Created
  /\ Cardinality(DOMAIN store) = 2
  /\ \E b \in body : b.Id \in DOMAIN store /\ b.Title = req.title

\* DeleteTodo of a stored id answers NoContent and removes that item only.
DeleteRemovesOne ==
  (ApiStep /\ req'.op = "DeleteTodo" /\ req'.id \in DOMAIN store) =>
    /\ status' = NoContent
    /\ DOMAIN store' = DOMAIN store \ {req'.id}
    /\ \A g \in DOMAIN store' : store'[g] = store[g]

\* C20 as stated: DeleteTodo of a stored id answers NoContent and removes
\* that item only; every later GetTodo, UpdateTodo and DeleteTodo with that
\* id answers NotFound.
C20_DeletedStaysGone ==
  [][ /\ DeleteRemovesOne
      /\ (ApiStep /\ ById /\ req'.id \in deleted) => status' = NotFound
    ]_vars

\* C20 amended: DeleteTodo of a stored id answers NoContent and removes that
\* item only; every later GetTodo, DeleteTodo, and UpdateTodo whose body
\* carries the route id, with that id answers NotFound.
C20_DeletedStaysGoneIdsAgree ==
  [][ /\ DeleteRemovesOne
      /\ (ApiStep /\ ById /\ req'.id \in deleted /\ IdsAgree) =>
           status' = NotFound
    ]_vars

\* A GetTodo with a deleted id was answered NotFound while another item is
\* still stored.
C20_Witness ==
  /\ req.op = "GetTodo" /\ req.id \in deleted
  /\ status = NotFound
  /\ DOMAIN store # {}

\* The local days a call on T can be said to have judged its tasks against:
\* the days the clock was read on, the day of the clock now, the days the
\* tasks of T are due on, and a day on which none of them is due.
CandidateDays(T) ==
  days \cup {(now + tz) \div HoursPerDay, 0}
       \cup { (T[k].dueDate + tz) \div HoursPerDay :
                k \in { j \in 1..Len(T) : T[j].dueDate # NaN } }

\* C21: the result of a call of filterTodos(T, dueToday) or
\* countTodosDueToday(T) is, for one single day D, exactly the open tasks of
\* T due on D (their number for the count), also when the clock passes
\* midnight during the call.
C21_OneDayPerCall ==
  /\ Returned("filterTodos", "dueToday") =>
       \E D \in CandidateDays(todos0) :
         ret = AtIndices(todos0, DueOn(todos0, D))
  /\ Returned("countTodosDueToday", "dueToday") =>
       \E D \in CandidateDays(todos0) :
         acc = AtIndices(todos0, DueOn(todos0, D))
           /\ cnt = Cardinality(DueOn(todos0, D))

\* R is a subsequence of T: its elements are elements of T at strictly
\* increasing positions.
IsSubsequence(R, T) ==
  \E f \in [1..Len(R) -> 1..Len(T)] :
    /\ \A k \in 1..Len(R) : T[f[k]] = R[k]
    /\ \A k, m \in 1..Len(R) : k < m => f[k] < f[m]

Elements(R) == { R[k] : k \in 1..Len(R) }

\* C22: every result of filterTodos is a subsequence of its input, whatever
\* the filter value; and the results of the dueToday and the completed
\* filter on the same array share no task.
C22_SubsequenceAndDisjoint ==
  /\ (pc = "returned" /\ op = "filterTodos") => IsSubsequence(ret, todos0)
  /\ ( /\ pc = "returned" /\ op = "filterTodos" /\ prevOp = "filterTodos"
       /\ {filter, prevFilter} = {"dueToday", "completed"} ) =>
       Elements(ret) \cap Elements(prevRet) = {}

\* A completed call has kept two different done tasks, in their order.
C22_Witness ==
  /\ Returned("filterTodos", "completed")
  /\ Len(todos0) = 2
  /\ ret = todos0
  /\ ret[1] # ret[2]
  /\ prevOp = "filterTodos" /\ prevFilter = "dueToday"

\* The tab indexes switchTabs accepts.
ValidTabs == {0, 1, 2}

\* C23: activeTabIndex starts at 0 and is always 0, 1 or 2; after
\* switchTabs(i) with i in {0, 1, 2} it is i; a switchTabs(i) with any other i
\* is logged as an error and leaves the tab, the tasks and the rendered list
\* as they were.
C23_ActiveTabIndex ==
  /\ activeTabIndex = 0
  /\ [](activeTabIndex \in ValidTabs)
  /\ [](\A index \in lastSwitch :
          index \in ValidTabs => activeTabIndex = index)
  /\ [][ \A index \in lastSwitch' :
           index \notin ValidTabs =>
             /\ index \in errLogged'
             /\ UNCHANGED <<activeTabIndex, todoItems, rendered>> ]_vars

\* switchTabs(3) has been called on the third tab, which is still active.
C23_Witness ==
  /\ lastSwitch = {3}
  /\ activeTabIndex = 2
  /\ errLogged = {3}

====
